---- MODULE Spec2Model ----
(***************************************************************************)
(* Model of the screen capture services of simwidget-hybrid/backend/       *)
(* video-capture: the raw socket service (capture-service.cpp) and the     *)
(* JPEG socket service (capture-service-jpeg.cpp).  Each service is one    *)
(* thread: Initialize, accept a client, then loop capture -> send.         *)
(* The Desktop Duplication surface, the staging texture and the client     *)
(* socket are the environment; their outcomes are nondeterministic.        *)
(***************************************************************************)
EXTENDS Integers, Sequences, FiniteSets, TLC

(***************************************************************************)
(* Bounds of the model.                                                    *)
(***************************************************************************)
\* frames one client session may be handed by the duplication surface
MaxFrames == 2
\* client connections the environment makes
MaxSessions == 2
\* the diagnostic counters timeoutCount / errorCount saturate here
MaxDiag == 2
\* number of distinct sizes the JPEG encoder may produce
MaxJpegSizes == 2

(***************************************************************************)
(* Program constants.                                                      *)
(***************************************************************************)
BUFFER_SIZE_RAW == 16777216
BUFFER_SIZE_JPEG == 2097152
HeaderSize == 8
LengthPrefixSize == 4
SleepTimeoutRaw == 1
SleepErrorRaw == 10
SleepErrorJpeg == 1
DefaultJpegQuality == 70

Variants == {"raw", "jpeg"}

\* display modes GetDesc may report: a tiny mode, full HD and 4K
Resolutions == {<<2, 1>>, <<1920, 1080>>, <<3840, 2160>>}

\* sizes of the encoded JPEG image (stream position after Commit)
JpegSizes == {k * 70000 : k \in 1..MaxJpegSizes}

\* contents new BYTE[BUFFER_SIZE] may hold before the first write
UninitBytes == {0, 205}

(***************************************************************************)
(* Integer conversions.                                                    *)
(***************************************************************************)
\* the n low-order bytes of v, least significant first (memcpy of an integer)
LE(v, n) == [i \in 1..n |-> (v \div (256 ^ (i - 1))) % 256]

RECURSIVE LEDecode(_)
\* the unsigned integer a little-endian reader finds in the bytes s
LEDecode(s) == IF Len(s) = 0 THEN 0 ELSE Head(s) + 256 * LEDecode(Tail(s))

MaxSize(v) == IF v = "raw" THEN BUFFER_SIZE_RAW ELSE BUFFER_SIZE_JPEG

VARIABLES
    variant,        \* which service this process is
    pc,             \* position of the single thread
    exitStatus,     \* -1 while the process runs, else the value main returned
    initCount,      \* calls of ScreenCapture::Initialize so far
    device,         \* ID3D11Device*: 0 = nullptr, else the Initialize call that made it
    duplication,    \* IDXGIOutputDuplication*, likewise
    stagingTexture, \* ID3D11Texture2D*, likewise
    width, height,  \* session dimensions
    hasFrame,       \* ScreenCapture::hasFrame
    jpegQuality,    \* ScreenCapture::jpegQuality
    surfaceHeld,    \* the duplication surface has an acquired, unreleased frame
    accessLost,     \* the duplication surface has been invalidated
    mapCount,       \* outstanding Map calls on the staging texture
    capOutcome,     \* what the current / last capture call ran into
    frameBuffer,    \* main's frameBuffer: [hdr, body]
    bufferAllocs,   \* number of new BYTE[BUFFER_SIZE] executed
    frameSize,      \* main's frameSize
    clientSocket,   \* "invalid" or "open"
    backlog,        \* connections waiting in the listen queue
    session,        \* clients accepted so far
    peerAlive,      \* the accepted client still has its end open
    lenDelivered,   \* bytes of the length prefix the socket took for this frame
    sent,           \* main's sent
    sendResult,     \* value the last send call returned
    framesSent,     \* main's framesSent
    timeoutCount,   \* raw main's timeoutCount
    errorCount,     \* raw main's errorCount
    lastFpsReport,  \* jpeg main's lastFpsReport
    lastSleep,      \* argument of the Sleep main executed in its last dispatch, 0 if none
    \* the shared-memory service (shm-capture.cpp) and the row copy
    hMapFile,       \* SharedMemoryCapture::hMapFile: 0 = nullptr, 1 = a handle
    pSharedMem,     \* SharedMemoryCapture::pSharedMem, likewise
    frameNum,       \* SharedMemoryCapture::frameNum
    shmHeader,      \* the ShmHeader at the start of the shared memory
    pixelData,      \* the bytes the row copy writes to (dst / pixelData), guard bytes behind
    mappedData,     \* mapped.pData: the bytes of the mapped staging texture
    rowPitch,       \* mapped.RowPitch
    y,              \* the row copy's loop variable
    releaseResult,  \* what the capture call's unconditional ReleaseFrame answered
    targetFps,      \* Run's targetFps
    frameTime,      \* Run's frameTime
    cpc,            \* position of the consumer process reading the shared memory
    cFrameNum,      \* the frameNum the consumer read
    cPixels,        \* the pixel bytes the consumer has read so far
    \* the JPEG service's report clock
    unreported,     \* whole seconds elapsed since main's startTime
    \* the host binding (node-addon/capture.cpp)
    captureInstance, \* the global captureInstance: 0 = nullptr, 1 = an object
    initialized,    \* ScreenCaptureAddon::initialized
    ret             \* the last call of the host: [call, value, after], after = the call before

captureVars == <<initCount, device, duplication, stagingTexture, width, height,
                 hasFrame, jpegQuality>>
dxgiVars == <<surfaceHeld, accessLost, mapCount>>
sockVars == <<clientSocket, backlog, session, peerAlive>>
loopVars == <<framesSent, timeoutCount, errorCount, lastFpsReport, lastSleep>>
sendVars == <<lenDelivered, sent, sendResult>>

shmVars == <<hMapFile, pSharedMem, frameNum, shmHeader, releaseResult, targetFps, frameTime>>
copyVars == <<pixelData, mappedData, rowPitch, y>>
consumerVars == <<cpc, cFrameNum, cPixels>>
addonVars == <<captureInstance, initialized, ret>>
\* everything the socket services do not have
otherVars == <<shmVars, copyVars, consumerVars, addonVars>>

vars == <<variant, pc, exitStatus, captureVars, dxgiVars, capOutcome, frameBuffer,
          bufferAllocs, frameSize, sockVars, sendVars, loopVars, otherVars, unreported>>

\* the host has made no call
NoCall == [call |-> "none", value |-> "none", after |-> "none"]

\* no shared memory, no row copy under way, no consumer
OtherInit ==
    /\ hMapFile = 0 /\ pSharedMem = 0 /\ frameNum = 0
    /\ shmHeader = [width |-> 0, height |-> 0, frameNum |-> 0, timestamp |-> 0, ready |-> 0]
    /\ pixelData = <<>> /\ mappedData = <<>> /\ rowPitch = 0 /\ y = 0
    /\ releaseResult = "none"
    /\ targetFps = 0 /\ frameTime = 0
    /\ cpc = "off" /\ cFrameNum = 0 /\ cPixels = <<>>
    /\ captureInstance = 0 /\ initialized = FALSE /\ ret = NoCall

Init ==
    /\ variant \in Variants
    /\ pc = "start"
    /\ exitStatus = -1
    /\ initCount = 0
    /\ device = 0 /\ duplication = 0 /\ stagingTexture = 0
    /\ width = 0 /\ height = 0
    /\ hasFrame = FALSE
    /\ jpegQuality = DefaultJpegQuality
    /\ surfaceHeld = FALSE /\ accessLost = FALSE /\ mapCount = 0
    /\ capOutcome = "none"
    /\ frameBuffer = [hdr |-> <<>>, body |-> "unallocated"]
    /\ bufferAllocs = 0
    /\ frameSize = 0
    /\ clientSocket = "invalid" /\ backlog = 0 /\ session = 0 /\ peerAlive = FALSE
    /\ lenDelivered = 0 /\ sent = 0 /\ sendResult = 0
    /\ framesSent = 0 /\ timeoutCount = 0 /\ errorCount = 0 /\ lastFpsReport = 0
    /\ lastSleep = 0
    /\ unreported = 0
    /\ OtherInit

(***************************************************************************)
(* ScreenCapture::Initialize.  failAt names the first call that fails      *)
(* ("none": every call succeeds); mode is what GetDesc reports.            *)
(***************************************************************************)
InitStagesRaw == <<"D3D11CreateDevice", "QueryDXGIDevice", "GetAdapter", "EnumOutputs",
                   "QueryOutput1", "DuplicateOutput", "CreateTexture2D">>

InitStages(v) == IF v = "jpeg" THEN <<"CoCreateInstance">> \o InitStagesRaw ELSE InitStagesRaw

StageIndex(stages, s) == CHOOSE i \in 1..Len(stages) : stages[i] = s

\* the call s of the sequence stages was made and succeeded
Passed(stages, failAt, s) ==
    \/ failAt = "none"
    \/ StageIndex(stages, failAt) > StageIndex(stages, s)

Failures(stages) == {stages[i] : i \in 1..Len(stages)} \cup {"none"}

Initialize(failAt, mode) ==
    LET stages == InitStages(variant)
        gen == initCount + 1
        dup == Passed(stages, failAt, "DuplicateOutput")
    IN  /\ initCount' = gen
        /\ device' = IF Passed(stages, failAt, "D3D11CreateDevice") THEN gen ELSE device
        /\ duplication' = IF dup THEN gen ELSE duplication
        /\ width' = IF dup THEN mode[1] ELSE width
        /\ height' = IF dup THEN mode[2] ELSE height
        /\ stagingTexture' = IF failAt = "none" THEN gen ELSE stagingTexture
        /\ surfaceHeld' = IF dup THEN FALSE ELSE surfaceHeld
        /\ accessLost' = IF dup THEN FALSE ELSE accessLost
        /\ UNCHANGED <<hasFrame, mapCount>>

\* values atoi(argv[1]) may give main as the quality
QualityArgs == {-1, 60, 101}

(***************************************************************************)
(* main up to the accept loop: Initialize, exit 1 on failure, SetQuality   *)
(* (JPEG service), socket setup, new BYTE[BUFFER_SIZE].                    *)
(***************************************************************************)
Startup ==
    /\ pc = "start"
    /\ \E failAt \in Failures(InitStages(variant)), mode \in Resolutions :
         /\ Initialize(failAt, mode)
         /\ IF failAt # "none"
            THEN /\ pc' = "exited"
                 /\ exitStatus' = 1
                 /\ UNCHANGED <<jpegQuality, frameBuffer, bufferAllocs>>
            ELSE /\ pc' = "listening"
                 /\ exitStatus' = exitStatus
                 /\ \E q \in (IF variant = "jpeg" THEN QualityArgs ELSE {DefaultJpegQuality}),
                       fill \in UninitBytes :
                      /\ jpegQuality' = IF variant = "jpeg" THEN q ELSE jpegQuality
                      /\ frameBuffer' = [hdr |-> [i \in 1..HeaderSize |-> fill],
                                         body |-> "uninit"]
                 /\ bufferAllocs' = bufferAllocs + 1
    /\ UNCHANGED <<variant, otherVars, unreported, capOutcome, frameSize, sockVars, sendVars, loopVars>>

(***************************************************************************)
(* The environment's clients.                                              *)
(***************************************************************************)
ClientConnect ==
    /\ variant \in Variants
    /\ pc \notin {"start", "exited"}
    /\ backlog + session < MaxSessions
    /\ backlog' = backlog + 1
    /\ UNCHANGED <<variant, otherVars, unreported, pc, exitStatus, captureVars, dxgiVars, capOutcome, frameBuffer,
                   bufferAllocs, frameSize, clientSocket, session, peerAlive, sendVars,
                   loopVars>>

ClientDisconnect ==
    /\ clientSocket = "open"
    /\ peerAlive
    /\ peerAlive' = FALSE
    /\ UNCHANGED <<variant, otherVars, unreported, pc, exitStatus, captureVars, dxgiVars, capOutcome, frameBuffer,
                   bufferAllocs, frameSize, clientSocket, backlog, session, sendVars,
                   loopVars>>

(***************************************************************************)
(* main: accept.                                                           *)
(***************************************************************************)
\* mutant of Accept: the held-frame flag is reset with the per-session counters
Accept_ResetsHasFrame ==
    /\ pc = "listening"
    /\ backlog > 0
    /\ backlog' = backlog - 1
    /\ session' = session + 1
    /\ clientSocket' = "open"
    /\ peerAlive' = TRUE
    /\ framesSent' = 0
    /\ timeoutCount' = IF variant = "raw" THEN 0 ELSE timeoutCount
    /\ errorCount' = IF variant = "raw" THEN 0 ELSE errorCount
    /\ lastFpsReport' = IF variant = "jpeg" THEN 0 ELSE lastFpsReport
    /\ unreported' = 0
    /\ hasFrame' = FALSE
    /\ pc' = "capture"
    /\ UNCHANGED <<variant, otherVars, exitStatus, initCount, device, duplication,
                   stagingTexture, width, height, jpegQuality, dxgiVars, capOutcome,
                   frameBuffer, bufferAllocs, frameSize, sendVars, lastSleep>>

Accept ==
    /\ pc = "listening"
    /\ backlog > 0
    /\ backlog' = backlog - 1
    /\ session' = session + 1
    /\ clientSocket' = "open"
    /\ peerAlive' = TRUE
    /\ framesSent' = 0
    /\ timeoutCount' = IF variant = "raw" THEN 0 ELSE timeoutCount
    /\ errorCount' = IF variant = "raw" THEN 0 ELSE errorCount
    /\ lastFpsReport' = IF variant = "jpeg" THEN 0 ELSE lastFpsReport
    /\ unreported' = 0
    /\ pc' = "capture"
    /\ UNCHANGED <<variant, otherVars, exitStatus, captureVars, dxgiVars, capOutcome, frameBuffer,
                   bufferAllocs, frameSize, sendVars, lastSleep>>

\* accept returned INVALID_SOCKET: continue
AcceptInvalid ==
    /\ pc = "listening"
    /\ UNCHANGED vars

(***************************************************************************)
(* CaptureFrame / CaptureFrameJPEG, in four steps.                         *)
(***************************************************************************)
\* mutant of ReleasePrevious: the frame is given back but the flag stays set
ReleasePrevious_KeepsFlag ==
    /\ surfaceHeld' = (IF hasFrame THEN FALSE ELSE surfaceHeld)
    /\ hasFrame' = hasFrame

\* mutant of ReleasePrevious: the previous frame is never given back
ReleasePrevious_Skip == UNCHANGED <<surfaceHeld, hasFrame>>

\* release the previous frame if we had one
ReleasePrevious ==
    IF hasFrame
    THEN /\ surfaceHeld' = FALSE
         /\ hasFrame' = FALSE
    ELSE UNCHANGED <<surfaceHeld, hasFrame>>

\* entry of the capture call
CaptureRelease ==
    /\ pc = "capture"
    /\ ReleasePrevious
    /\ capOutcome' = "none"
    /\ pc' = "acquire"
    /\ UNCHANGED <<variant, otherVars, unreported, exitStatus, initCount, device, duplication, stagingTexture,
                   width, height, jpegQuality, accessLost, mapCount, frameBuffer,
                   bufferAllocs, frameSize, sockVars, sendVars, loopVars>>

\* what AcquireNextFrame may answer in the current state of the surface
AcquireOutcomes ==
    IF surfaceHeld THEN {"INVALID_CALL"}
    ELSE IF accessLost THEN {"ACCESS_LOST"}
    ELSE {"WAIT_TIMEOUT", "ACCESS_LOST", "FAIL"}
         \cup (IF framesSent < MaxFrames THEN {"S_OK"} ELSE {})

\* the value the capture call returns for a failed acquire
AcquireFailureCode(v, hr) ==
    IF hr = "WAIT_TIMEOUT" THEN -2
    ELSE IF hr = "ACCESS_LOST" /\ v = "raw" THEN -3
    ELSE -1

CaptureAcquire ==
    /\ pc = "acquire"
    /\ \E hr \in AcquireOutcomes :
         /\ capOutcome' = hr
         /\ accessLost' = (accessLost \/ hr = "ACCESS_LOST")
         /\ IF hr = "S_OK"
            THEN /\ surfaceHeld' = TRUE
                 /\ hasFrame' = TRUE
                 /\ pc' = "stage"
                 /\ frameSize' = frameSize
            ELSE /\ UNCHANGED <<surfaceHeld, hasFrame>>
                 /\ frameSize' = AcquireFailureCode(variant, hr)
                 /\ pc' = "dispatch"
    /\ UNCHANGED <<variant, otherVars, unreported, exitStatus, initCount, device, duplication, stagingTexture,
                   width, height, jpegQuality, mapCount, frameBuffer, bufferAllocs,
                   sockVars, sendVars, loopVars>>

\* QueryInterface(ID3D11Texture2D), CopyResource, Map
CaptureStage ==
    /\ pc = "stage"
    /\ \E r \in {"QueryInterface", "Map", "mapped"} :
         /\ capOutcome' = r
         /\ IF r = "mapped"
            THEN /\ mapCount' = mapCount + 1
                 /\ pc' = "encode"
                 /\ frameSize' = frameSize
            ELSE /\ mapCount' = mapCount
                 /\ frameSize' = -1
                 /\ pc' = "dispatch"
    /\ UNCHANGED <<variant, otherVars, unreported, exitStatus, captureVars, surfaceHeld, accessLost, frameBuffer,
                   bufferAllocs, sockVars, sendVars, loopVars>>

\* mutant of EncodeRaw: the header is written before the size is checked
EncodeRaw_HeaderFirst ==
    /\ pc = "encode"
    /\ variant = "raw"
    /\ LET dataSize == width * height * 4
           totalSize == HeaderSize + dataSize
       IN  IF totalSize > MaxSize(variant)
           THEN /\ capOutcome' = "BufferTooSmall"
                /\ frameSize' = -1
                /\ frameBuffer' = [frameBuffer EXCEPT !.hdr = LE(width, 4) \o LE(height, 4)]
           ELSE /\ capOutcome' = "captured"
                /\ frameSize' = totalSize
                /\ frameBuffer' = [hdr |-> LE(width, 4) \o LE(height, 4), body |-> "bgra"]
    /\ mapCount' = mapCount - 1
    /\ pc' = "dispatch"
    /\ UNCHANGED <<variant, otherVars, unreported, exitStatus, captureVars, surfaceHeld, accessLost, bufferAllocs,
                   sockVars, sendVars, loopVars>>

\* raw service: size check, header, pitch-corrected copy, Unmap
EncodeRaw ==
    /\ pc = "encode"
    /\ variant = "raw"
    /\ LET dataSize == width * height * 4   \* below 2^31 for every mode of Resolutions
           totalSize == HeaderSize + dataSize
       IN  IF totalSize > MaxSize(variant)
           THEN /\ capOutcome' = "BufferTooSmall"
                /\ frameSize' = -1
                /\ frameBuffer' = frameBuffer
           ELSE /\ capOutcome' = "captured"
                /\ frameSize' = totalSize
                /\ frameBuffer' = [hdr |-> LE(width, 4) \o LE(height, 4), body |-> "bgra"]
    /\ mapCount' = mapCount - 1
    /\ pc' = "dispatch"
    /\ UNCHANGED <<variant, otherVars, unreported, exitStatus, captureVars, surfaceHeld, accessLost, bufferAllocs,
                   sockVars, sendVars, loopVars>>

JpegStages == <<"CreateStream", "InitializeFromMemory", "CreateEncoder", "EncoderInitialize",
                "CreateNewFrame", "FrameInitialize", "SetSize", "SetPixelFormat",
                "WritePixels", "FrameCommit", "EncoderCommit">>

\* the failure branches of CaptureFrameJPEG that call Unmap themselves
JpegUnmapBranches == {"CreateStream", "InitializeFromMemory", "CreateEncoder",
                      "EncoderInitialize", "CreateNewFrame", "FrameInitialize",
                      "SetSize", "SetPixelFormat"}

\* mutant of JpegUnmaps: the SetSize failure branch returns without its Unmap
JpegUnmaps_SetSizeLeaks(failAt) ==
    (IF failAt \in JpegUnmapBranches \ {"SetSize"} THEN 1 ELSE 0)
    + (IF failAt = "none"
          \/ StageIndex(JpegStages, failAt) >= StageIndex(JpegStages, "WritePixels")
       THEN 1 ELSE 0)

\* Unmap calls on the path of CaptureFrameJPEG that fails at failAt: the one of the
\* failure branch, and the one right after WritePixels when that call is reached
JpegUnmaps(failAt) ==
    (IF failAt \in JpegUnmapBranches THEN 1 ELSE 0)
    + (IF failAt = "none"
          \/ StageIndex(JpegStages, failAt) >= StageIndex(JpegStages, "WritePixels")
       THEN 1 ELSE 0)

\* JPEG service: WIC encode into buffer + 8, Unmap, header
EncodeJPEG_Step(failAt, jpegSize) ==
    /\ IF failAt # "none"
       THEN /\ capOutcome' = failAt
            /\ frameSize' = -1
            /\ \E body \in (IF Passed(JpegStages, failAt, "EncoderInitialize")
                            THEN {frameBuffer.body, "torn"} ELSE {frameBuffer.body}) :
                 frameBuffer' = [frameBuffer EXCEPT !.body = body]
       ELSE /\ capOutcome' = "captured"
            /\ frameSize' = HeaderSize + jpegSize
            /\ frameBuffer' = [hdr |-> LE(width % 65536, 2) \o LE(height % 65536, 2)
                                        \o LE(jpegSize, 4),
                               body |-> "jpeg"]
    /\ mapCount' = mapCount - JpegUnmaps(failAt)

EncodeJPEG ==
    /\ pc = "encode"
    /\ variant = "jpeg"
    /\ \E failAt \in Failures(JpegStages), jpegSize \in JpegSizes :
         EncodeJPEG_Step(failAt, jpegSize)
    /\ pc' = "dispatch"
    /\ UNCHANGED <<variant, otherVars, unreported, exitStatus, captureVars, surfaceHeld, accessLost, bufferAllocs,
                   sockVars, sendVars, loopVars>>

(***************************************************************************)
(* main: the streaming loop after the capture call returned.               *)
(***************************************************************************)
Bump(n) == IF n < MaxDiag THEN n + 1 ELSE n

\* mutant of OnTimeoutRaw: break where the code has continue
OnTimeoutRaw_Break ==
    /\ timeoutCount' = Bump(timeoutCount)
    /\ errorCount' = errorCount
    /\ lastSleep' = SleepTimeoutRaw
    /\ pc' = "close"

\* raw main, frameSize == -2: count, Sleep(1), continue
OnTimeoutRaw ==
    /\ timeoutCount' = Bump(timeoutCount)
    /\ errorCount' = errorCount
    /\ lastSleep' = SleepTimeoutRaw
    /\ pc' = "capture"

\* mutant of OnErrorRaw: the retry without its Sleep(10)
OnErrorRaw_NoBackoff ==
    /\ errorCount' = Bump(errorCount)
    /\ timeoutCount' = timeoutCount
    /\ lastSleep' = 0
    /\ pc' = "capture"

\* raw main, frameSize <= 0: count, Sleep(10), continue
OnErrorRaw ==
    /\ errorCount' = Bump(errorCount)
    /\ timeoutCount' = timeoutCount
    /\ lastSleep' = SleepErrorRaw
    /\ pc' = "capture"

DispatchRaw ==
    /\ pc = "dispatch"
    /\ variant = "raw"
    /\ IF frameSize = -2 THEN OnTimeoutRaw
       ELSE IF frameSize <= 0 THEN OnErrorRaw
       ELSE /\ timeoutCount' = 0
            /\ errorCount' = 0
            /\ lastSleep' = 0
            /\ pc' = "send_len"
    /\ UNCHANGED <<variant, otherVars, unreported, exitStatus, captureVars, dxgiVars, capOutcome, frameBuffer,
                   bufferAllocs, frameSize, sockVars, sendVars, framesSent, lastFpsReport>>

\* mutant of DispatchJPEG: a failed capture ends the client session (break, not continue)
DispatchJPEG_ErrorBreaks ==
    /\ pc = "dispatch"
    /\ variant = "jpeg"
    /\ IF frameSize = -2
       THEN /\ lastSleep' = 0
            /\ pc' = "capture"
       ELSE IF frameSize <= 0
       THEN /\ lastSleep' = SleepErrorJpeg
            /\ pc' = "close"
       ELSE /\ lastSleep' = 0
            /\ pc' = "send_len"
    /\ UNCHANGED <<variant, otherVars, unreported, exitStatus, captureVars, dxgiVars, capOutcome, frameBuffer,
                   bufferAllocs, frameSize, sockVars, sendVars, framesSent, timeoutCount,
                   errorCount, lastFpsReport>>

DispatchJPEG ==
    /\ pc = "dispatch"
    /\ variant = "jpeg"
    /\ IF frameSize = -2
       THEN /\ lastSleep' = 0
            /\ pc' = "capture"
       ELSE IF frameSize <= 0
       THEN /\ lastSleep' = SleepErrorJpeg
            /\ pc' = "capture"
       ELSE /\ lastSleep' = 0
            /\ pc' = "send_len"
    /\ UNCHANGED <<variant, otherVars, unreported, exitStatus, captureVars, dxgiVars, capOutcome, frameBuffer,
                   bufferAllocs, frameSize, sockVars, sendVars, framesSent, timeoutCount,
                   errorCount, lastFpsReport>>

\* results of send(clientSocket, p, req, 0): all, a part, or zero / SOCKET_ERROR
SendResults(req) ==
    IF peerAlive
    THEN {req, 0, -1} \cup (IF req <= LengthPrefixSize THEN 1..(req - 1) ELSE {req \div 2})
    ELSE {0, -1}

\* send frame size first (4 bytes)
SendLength ==
    /\ pc = "send_len"
    /\ \E result \in SendResults(LengthPrefixSize) :
         /\ sendResult' = result
         /\ IF result <= 0
            THEN /\ pc' = "close"
                 /\ lenDelivered' = 0
                 /\ sent' = sent
            ELSE /\ pc' = "send_data"
                 /\ lenDelivered' = result
                 /\ sent' = 0
    /\ UNCHANGED <<variant, otherVars, unreported, exitStatus, captureVars, dxgiVars, capOutcome, frameBuffer,
                   bufferAllocs, frameSize, sockVars, loopVars>>

\* mutant of SendData: a failed send is taken for progress (result < 0 tested, not <= 0)
SendData_ZeroIsProgress ==
    /\ pc = "send_data"
    /\ sent < frameSize
    /\ \E result \in SendResults(frameSize - sent) :
         /\ sendResult' = result
         /\ IF result < 0
            THEN /\ pc' = "close"
                 /\ sent' = sent
            ELSE /\ sent' = sent + result
                 /\ pc' = "count"
    /\ UNCHANGED <<variant, otherVars, unreported, exitStatus, captureVars, dxgiVars, capOutcome, frameBuffer,
                   bufferAllocs, frameSize, sockVars, lenDelivered, loopVars>>

\* one iteration of while (sent < frameSize), and the check after the loop
SendData ==
    /\ pc = "send_data"
    /\ sent < frameSize
    /\ \E result \in SendResults(frameSize - sent) :
         /\ sendResult' = result
         /\ IF result <= 0
            THEN /\ pc' = "close"
                 /\ sent' = sent
            ELSE /\ sent' = sent + result
                 /\ pc' = IF sent + result < frameSize THEN "send_data" ELSE "count"
    /\ UNCHANGED <<variant, otherVars, unreported, exitStatus, captureVars, dxgiVars, capOutcome, frameBuffer,
                   bufferAllocs, frameSize, sockVars, lenDelivered, loopVars>>

\* the iteration's locals (sent, result) and its bytes on the wire end with the iteration
LoopLocalsGone ==
    /\ lenDelivered' = 0
    /\ sent' = 0
    /\ sendResult' = 0

MaxSeconds == 1
MsPerSecond == 1000
ReportPeriodMs == 1000

\* a second goes by on the steady clock while the JPEG service serves a client
SecondPasses ==
    /\ variant = "jpeg"
    /\ clientSocket = "open"
    /\ unreported < MaxSeconds
    /\ unreported' = unreported + 1
    /\ UNCHANGED <<variant, otherVars, pc, exitStatus, captureVars, dxgiVars, capOutcome,
                   frameBuffer, bufferAllocs, frameSize, sockVars, sendVars, loopVars>>

\* framesSent++ and, in the JPEG service, the FPS report once a second has elapsed
CountFrame ==
    /\ pc = "count"
    /\ framesSent' = framesSent + 1
    /\ IF variant = "jpeg" /\ unreported * MsPerSecond >= ReportPeriodMs
       THEN /\ lastFpsReport' = framesSent + 1
            /\ unreported' = 0
       ELSE UNCHANGED <<lastFpsReport, unreported>>
    /\ LoopLocalsGone
    /\ pc' = "capture"
    /\ UNCHANGED <<variant, otherVars, exitStatus, captureVars, dxgiVars, capOutcome, frameBuffer,
                   bufferAllocs, frameSize, sockVars, timeoutCount, errorCount, lastSleep>>

\* mutant of CloseClient: back to accept without closesocket
CloseClient_NoClose ==
    /\ pc = "close"
    /\ LoopLocalsGone
    /\ pc' = "listening"
    /\ UNCHANGED <<variant, otherVars, unreported, exitStatus, captureVars, dxgiVars, capOutcome, frameBuffer,
                   bufferAllocs, frameSize, sockVars, loopVars>>

\* closesocket(clientSocket), back to accept
CloseClient ==
    /\ pc = "close"
    /\ clientSocket' = "invalid"
    /\ peerAlive' = FALSE
    /\ LoopLocalsGone
    /\ pc' = "listening"
    /\ UNCHANGED <<variant, otherVars, unreported, exitStatus, captureVars, dxgiVars, capOutcome, frameBuffer,
                   bufferAllocs, frameSize, backlog, session, loopVars>>

\* the steps of the service's single thread
ServerStep ==
    \/ Startup
    \/ Accept
    \/ AcceptInvalid
    \/ CaptureRelease
    \/ CaptureAcquire
    \/ CaptureStage
    \/ EncodeRaw
    \/ EncodeJPEG
    \/ DispatchRaw
    \/ DispatchJPEG
    \/ SendLength
    \/ SendData
    \/ CountFrame
    \/ CloseClient

Next ==
    \/ ServerStep
    \/ ClientConnect
    \/ ClientDisconnect
    \/ SecondPasses

Spec == Init /\ [][Next]_vars

\* the thread always takes its next step; the clients are under no obligation
FairSpec == Spec /\ WF_vars(ServerStep)

(***************************************************************************)
(* What a client reading the stream finds for the frame being sent: the    *)
(* socket took lenDelivered bytes of the prefix and then sent bytes of     *)
(* frameBuffer.                                                            *)
(***************************************************************************)
\* the first four bytes of the frame's record on the wire
WireFirst4 ==
    SubSeq(LE(frameSize, LengthPrefixSize), 1, lenDelivered)
        \o SubSeq(frameBuffer.hdr, 1, LengthPrefixSize - lenDelivered)

\* the number of bytes of the record that follow those four
WireAfterFirst4 == lenDelivered + sent - LengthPrefixSize

\* the thread took a step of main's send code
SendStep == pc \in {"send_len", "send_data"} /\ (pc' # pc \/ sent' # sent)

Streaming == pc \in {"capture", "acquire", "stage", "encode", "dispatch",
                     "send_len", "send_data", "count"}

(***************************************************************************)
(* C1: AcquireNextFrame is never issued while the duplication surface      *)
(* still holds a frame; the capture call releases the held frame itself    *)
(* before it acquires, whatever the earlier calls ran into.                *)
(***************************************************************************)
C1_NoAcquireWhileHeld == pc = "acquire" => ~surfaceHeld

\* a capture call reaches the acquire after an earlier frame was held and sent
C1_Witness == pc = "acquire" /\ ~surfaceHeld /\ framesSent >= 1

(***************************************************************************)
(* C2: after capture returned -3 (DeviceLost) the server re-initializes    *)
(* the capture session, so that the capture call that follows acquires     *)
(* from a valid duplication surface again.                                 *)
(***************************************************************************)
C2_ReinitAfterDeviceLost == (pc = "acquire" /\ frameSize = -3) => ~accessLost

(***************************************************************************)
(* C3: from every state reached after a DeviceLost result with a client    *)
(* connected, the server eventually sends to that client again or is back  *)
(* in Listening.                                                           *)
(***************************************************************************)
C3_ServesAfterDeviceLost ==
    (accessLost /\ clientSocket = "open")
        ~> (pc \in {"send_len", "send_data", "count"} \/ pc = "listening")

(***************************************************************************)
(* C4: for every frame that is counted in framesSent, the 4-byte length    *)
(* prefix found on the wire equals the number of bytes that follow it for  *)
(* that frame: 8 + width*height*4 (raw), 8 + the header's compressedSize   *)
(* (JPEG).                                                                 *)
(***************************************************************************)
C4_LengthPrefixMatchesPayload ==
    pc = "count" =>
        /\ LEDecode(WireFirst4) = WireAfterFirst4
        /\ WireAfterFirst4 = IF variant = "raw"
                             THEN HeaderSize + width * height * 4
                             ELSE HeaderSize + LEDecode(SubSeq(frameBuffer.hdr, 5, 8))

(***************************************************************************)
(* C5: a send that takes fewer bytes than asked, the send of the length    *)
(* prefix included, is followed by sends of the rest; so payload bytes     *)
(* reach the wire only behind a complete 4-byte prefix.                    *)
(***************************************************************************)
C5_PartialSendsRetried ==
    (pc \in {"send_data", "count"} /\ sent > 0) => lenDelivered = LengthPrefixSize

(***************************************************************************)
(* C6: a send that returns zero or a negative value ends the current       *)
(* client session only: no further send, the frame is not counted, the     *)
(* socket is closed and the server is back in Listening with the staging   *)
(* texture unmapped, the one frame buffer still allocated and the process  *)
(* running.                                                                *)
(***************************************************************************)
C6_SendFailureEndsSessionOnly ==
    [][ /\ (SendStep /\ sendResult' <= 0) =>
              /\ pc' = "close"
              /\ framesSent' = framesSent
              /\ UNCHANGED <<lenDelivered, sent>>
        /\ (pc = "close" /\ pc' # pc) =>
              /\ pc' = "listening"
              /\ clientSocket' = "invalid"
              /\ framesSent' = framesSent
              /\ mapCount' = 0
              /\ bufferAllocs' = 1
              /\ frameBuffer' = frameBuffer
              /\ exitStatus' = -1
      ]_vars

\* back in Listening after a send failed on the session's first captured frame
C6_Witness ==
    /\ pc = "listening"
    /\ session >= 1
    /\ clientSocket = "invalid"
    /\ frameSize > 0
    /\ framesSent = 0
    /\ mapCount = 0

(***************************************************************************)
(* C7: after the client disconnects the stream session is destroyed and    *)
(* the server returns to Listening, whatever capture does afterwards.      *)
(***************************************************************************)
C7_DisconnectEndsSession ==
    (clientSocket = "open" /\ ~peerAlive) ~> (pc = "listening")

(***************************************************************************)
(* C8: when capture returns Timeout (-2) the server sends nothing for that *)
(* iteration, leaves framesSent unchanged, keeps the client connected and  *)
(* goes on to the next capture attempt.                                    *)
(***************************************************************************)
C8_TimeoutSendsNothing ==
    [][ (pc = "dispatch" /\ frameSize = -2 /\ pc' # pc) =>
              /\ pc' = "capture"
              /\ framesSent' = framesSent
              /\ clientSocket' = "open"
              /\ UNCHANGED <<lenDelivered, sent, sendResult>>
      ]_vars

\* a Timeout was dispatched after a frame had been sent to the same client
C8_Witness ==
    /\ pc = "capture"
    /\ frameSize = -2
    /\ framesSent >= 1
    /\ clientSocket = "open"

(***************************************************************************)
(* C9: no capture result ends the process or the client session: after     *)
(* every value capture returns the process runs on with the client         *)
(* connected, a hard error is followed by a Sleep and another capture      *)
(* attempt, and the streaming loop is left only through a failed send.     *)
(***************************************************************************)
C9_CaptureResultNeverTerminates ==
    [][ /\ (pc = "dispatch" /\ pc' # pc) =>
              /\ exitStatus' = -1
              /\ clientSocket' = "open"
              /\ pc' = IF frameSize > 0 THEN "send_len" ELSE "capture"
              /\ (frameSize <= 0 /\ frameSize # -2) => lastSleep' > 0
        /\ (Streaming /\ ~Streaming') =>
              /\ SendStep
              /\ sendResult' <= 0
              /\ pc' = "close"
      ]_vars

\* a DeviceLost result was dispatched: backed off, client kept, capturing again
C9_Witness ==
    /\ pc = "capture"
    /\ frameSize = -3
    /\ lastSleep = SleepErrorRaw
    /\ clientSocket = "open"
    /\ exitStatus = -1

(***************************************************************************)
(* C10: in both services the capture call returns -2 exactly when the      *)
(* acquire timed out, -3 exactly when the duplication surface was lost,    *)
(* -1 for every other failure, and otherwise headerSize + payloadSize.     *)
(***************************************************************************)
C10_ReturnCodes ==
    pc = "dispatch" =>
        /\ (frameSize = -2) <=> (capOutcome = "WAIT_TIMEOUT")
        /\ (frameSize = -3) <=> (capOutcome = "ACCESS_LOST")
        /\ (frameSize = -1) <=> (capOutcome \notin {"WAIT_TIMEOUT", "ACCESS_LOST", "captured"})
        /\ (capOutcome = "captured") =>
              frameSize = HeaderSize + (IF variant = "raw" THEN width * height * 4
                                        ELSE LEDecode(SubSeq(frameBuffer.hdr, 5, 8)))

(***************************************************************************)
(* The pitch-corrected row copy (capture-service.cpp 149-154,               *)
(* shm-capture.cpp 139-141, node-addon/capture.cpp 119-121).  Buffers are  *)
(* sequences of bytes; offset k of a buffer is element k + 1.               *)
(***************************************************************************)
\* bytes of memory behind the destination buffer, -1 while nothing has written there
GuardLen == 4
NotWritten == -1

\* memcpy(dst + dOff, src + sOff, n)
Memcpy(dst, dOff, src, sOff, n) ==
    [i \in 1..Len(dst) |->
        IF i - 1 >= dOff /\ i - 1 < dOff + n THEN src[sOff + (i - 1 - dOff) + 1] ELSE dst[i]]

\* mutant of CopyRow: the source row is addressed with the destination's stride
CopyRow_Flat(dst, src, yy, w, pitch) == Memcpy(dst, yy * w * 4, src, yy * w * 4, w * 4)

\* memcpy(dst + y * width * 4, src + y * mapped.RowPitch, width * 4)
CopyRow(dst, src, yy, w, pitch) == Memcpy(dst, yy * w * 4, src, yy * pitch, w * 4)

\* one iteration of for (UINT y = 0; y < height; y++)
CopyLoopBody ==
    /\ y < height
    /\ pixelData' = CopyRow(pixelData, mappedData, y, width, rowPitch)
    /\ y' = y + 1
    /\ UNCHANGED <<mappedData, rowPitch>>

\* a destination of n bytes holding fill, with the guard bytes behind it
Buffer(n, fill) == [i \in 1..(n + GuardLen) |-> IF i <= n THEN fill ELSE NotWritten]

\* everything of the socket services the other programs do not have
socketOnlyVars == <<hasFrame, jpegQuality, frameBuffer, bufferAllocs, frameSize, sockVars,
                    sendVars, framesSent, timeoutCount, errorCount, lastFpsReport, unreported>>

SocketOnlyInit ==
    /\ hasFrame = FALSE
    /\ jpegQuality = DefaultJpegQuality
    /\ frameBuffer = [hdr |-> <<>>, body |-> "unallocated"]
    /\ bufferAllocs = 0
    /\ frameSize = 0
    /\ clientSocket = "invalid" /\ backlog = 0 /\ session = 0 /\ peerAlive = FALSE
    /\ lenDelivered = 0 /\ sent = 0 /\ sendResult = 0
    /\ framesSent = 0 /\ timeoutCount = 0 /\ errorCount = 0 /\ lastFpsReport = 0
    /\ unreported = 0

(***************************************************************************)
(* The row copy on its own: every width, height, row pitch and source      *)
(* content within the bounds, one step per row.                            *)
(***************************************************************************)
MaxCopyWidth == 2
MaxCopyHeight == 3
MaxPadPixels == 2
MaxSeed == 2

\* source byte at offset k of a mapped texture whose content is numbered seed
SourceByte(seed, k) == (seed * 37 + k * 7) % 251

InitCopy ==
    /\ variant = "copy"
    /\ pc = "copy_rows"
    /\ exitStatus = -1
    /\ initCount = 0
    /\ device = 0 /\ duplication = 0 /\ stagingTexture = 0
    /\ surfaceHeld = FALSE /\ accessLost = FALSE /\ mapCount = 1
    /\ capOutcome = "mapped"
    /\ lastSleep = 0
    /\ SocketOnlyInit
    /\ hMapFile = 0 /\ pSharedMem = 0 /\ frameNum = 0
    /\ shmHeader = [width |-> 0, height |-> 0, frameNum |-> 0, timestamp |-> 0, ready |-> 0]
    /\ releaseResult = "none"
    /\ targetFps = 0 /\ frameTime = 0
    /\ cpc = "off" /\ cFrameNum = 0 /\ cPixels = <<>>
    /\ captureInstance = 0 /\ initialized = FALSE /\ ret = NoCall
    /\ width \in 1..MaxCopyWidth
    /\ height \in 1..MaxCopyHeight
    /\ \E pad \in 0..MaxPadPixels : rowPitch = width * 4 + pad * 4
    /\ \E seed \in 0..MaxSeed :
         mappedData = [i \in 1..(height * rowPitch) |-> SourceByte(seed, i - 1)]
    /\ pixelData = Buffer(width * height * 4, 0)
    /\ y = 0

CopyRows ==
    /\ pc = "copy_rows"
    /\ CopyLoopBody
    /\ UNCHANGED <<variant, addonVars, unreported, pc, exitStatus, captureVars, dxgiVars, capOutcome, frameBuffer,
                   bufferAllocs, frameSize, sockVars, sendVars, loopVars, shmVars,
                   consumerVars>>

CopyRowsEnd ==
    /\ pc = "copy_rows"
    /\ ~(y < height)
    /\ pc' = "copied"
    /\ UNCHANGED <<variant, addonVars, unreported, exitStatus, captureVars, dxgiVars, capOutcome, frameBuffer,
                   bufferAllocs, frameSize, sockVars, sendVars, loopVars, otherVars>>

NextCopy == CopyRows \/ CopyRowsEnd

SpecCopy == InitCopy /\ [][NextCopy]_vars

(***************************************************************************)
(* shm-capture.cpp: SharedMemoryCapture and its main.                      *)
(***************************************************************************)
MaxShmFrames == 2

\* the calls of SharedMemoryCapture::Initialize whose result is tested
ShmInitStages == <<"D3D11CreateDevice", "DuplicateOutput", "CreateFileMapping",
                   "MapViewOfFile">>

\* desktop modes of the shared-memory runs: two rows of one pixel, one row of two
ShmModes == {<<1, 2>>, <<2, 1>>}

\* row pitches Map may report for a texture w pixels wide
RowPitches(w) == {w * 4, w * 4 + 4}

\* values atoi(argv[1]) may give main as the frame rate
FpsArgs == {-1, 0, 60}

\* GetTickCount readings
Ticks == {16, 33}

\* GetTickCount() - start at the end of an iteration of Run
ElapsedMs == {0, 20}

\* int / int of C: the quotient truncated towards zero (b # 0)
CDiv(a, b) ==
    LET q == (IF a < 0 THEN -a ELSE a) \div (IF b < 0 THEN -b ELSE b)
    IN  IF (a < 0) # (b < 0) THEN -q ELSE q

InitShm ==
    /\ variant = "shm"
    /\ pc = "shm_start"
    /\ exitStatus = -1
    /\ initCount = 0
    /\ device = 0 /\ duplication = 0 /\ stagingTexture = 0
    /\ width = 0 /\ height = 0
    /\ surfaceHeld = FALSE /\ accessLost = FALSE /\ mapCount = 0
    /\ capOutcome = "none"
    /\ lastSleep = 0
    /\ SocketOnlyInit
    /\ OtherInit

\* SharedMemoryCapture::Initialize.  failAt is the first tested call that fails;
\* texOk tells whether the untested CreateTexture2D gave a texture.
ShmInitialize(failAt, mode, texOk) ==
    LET dup == Passed(ShmInitStages, failAt, "DuplicateOutput")
        mapped == failAt = "none"
    IN  /\ initCount' = initCount + 1
        /\ device' = IF Passed(ShmInitStages, failAt, "D3D11CreateDevice") THEN 1 ELSE 0
        /\ duplication' = IF dup THEN 1 ELSE 0
        /\ width' = IF dup THEN mode[1] ELSE 0
        /\ height' = IF dup THEN mode[2] ELSE 0
        /\ stagingTexture' = IF dup /\ texOk THEN 1 ELSE 0
        /\ hMapFile' = IF Passed(ShmInitStages, failAt, "CreateFileMapping") THEN 1 ELSE 0
        /\ pSharedMem' = IF mapped THEN 1 ELSE 0
        /\ shmHeader' = IF mapped
                        THEN [shmHeader EXCEPT !.width = mode[1], !.height = mode[2],
                                               !.frameNum = 0, !.ready = 0]
                        ELSE shmHeader
        /\ pixelData' = IF mapped THEN Buffer(mode[1] * mode[2] * 4, 0) ELSE pixelData

\* main: atoi(argv[1]), Initialize, return 1 when it fails, else Run(fps)
ShmStartup ==
    /\ pc = "shm_start"
    /\ \E fps \in FpsArgs, failAt \in Failures(ShmInitStages), mode \in ShmModes,
          texOk \in BOOLEAN :
         /\ ShmInitialize(failAt, mode, texOk)
         /\ targetFps' = IF failAt = "none" THEN fps ELSE targetFps
         /\ IF failAt # "none"
            THEN pc' = "exited" /\ exitStatus' = 1
            ELSE pc' = "shm_run" /\ exitStatus' = exitStatus
    /\ UNCHANGED <<variant, addonVars, dxgiVars, capOutcome, socketOnlyVars, lastSleep, frameNum,
                   releaseResult, frameTime, mappedData, rowPitch, y, consumerVars>>

\* Run: int frameTime = 1000 / targetFps; the division by zero ends the process
ShmRun ==
    /\ pc = "shm_run"
    /\ IF targetFps = 0
       THEN pc' = "crashed" /\ frameTime' = frameTime
       ELSE pc' = "shm_release" /\ frameTime' = CDiv(1000, targetFps)
    /\ UNCHANGED <<variant, addonVars, exitStatus, initCount, device, duplication, stagingTexture,
                   width, height, dxgiVars, capOutcome, socketOnlyVars, lastSleep, hMapFile,
                   pSharedMem, frameNum, shmHeader, releaseResult, targetFps, copyVars,
                   consumerVars>>

\* CaptureFrame: duplication->ReleaseFrame(), whatever the surface holds
ShmRelease ==
    /\ pc = "shm_release"
    /\ releaseResult' = IF surfaceHeld THEN "S_OK" ELSE "INVALID_CALL"
    /\ surfaceHeld' = FALSE
    /\ capOutcome' = "none"
    /\ pc' = "shm_acquire"
    /\ UNCHANGED <<variant, addonVars, exitStatus, initCount, device, duplication, stagingTexture,
                   width, height, accessLost, mapCount, socketOnlyVars, lastSleep, hMapFile,
                   pSharedMem, frameNum, shmHeader, targetFps, frameTime, copyVars,
                   consumerVars>>

\* what AcquireNextFrame(100, ...) may answer
ShmAcquireOutcomes ==
    IF accessLost THEN {"ACCESS_LOST"}
    ELSE {"WAIT_TIMEOUT", "ACCESS_LOST"}
         \cup (IF frameNum < MaxShmFrames THEN {"S_OK"} ELSE {})

\* CaptureFrame: AcquireNextFrame, return false when it failed
ShmAcquire ==
    /\ pc = "shm_acquire"
    /\ \E hr \in ShmAcquireOutcomes :
         /\ capOutcome' = hr
         /\ accessLost' = (accessLost \/ hr = "ACCESS_LOST")
         /\ surfaceHeld' = (hr = "S_OK")
         /\ pc' = IF hr = "S_OK" THEN "shm_stage" ELSE "shm_sleep"
    /\ UNCHANGED <<variant, addonVars, exitStatus, initCount, device, duplication, stagingTexture,
                   width, height, mapCount, socketOnlyVars, lastSleep, shmVars, copyVars,
                   consumerVars>>

\* CaptureFrame: QueryInterface, CopyResource, Map; return false when Map failed.
\* The mapped bytes are those of desktop image frameNum + 1.  Without a staging
\* texture (nullptr) Map fails or the call faults.
ShmStage ==
    /\ pc = "shm_stage"
    /\ \/ /\ stagingTexture # 0
          /\ \E pitch \in RowPitches(width) :
               /\ rowPitch' = pitch
               /\ mappedData' = [i \in 1..(height * pitch) |->
                                    IF (i - 1) % pitch < width * 4 THEN frameNum + 1 ELSE 0]
          /\ y' = 0
          /\ mapCount' = mapCount + 1
          /\ capOutcome' = "mapped"
          /\ pc' = "shm_copy"
       \/ /\ capOutcome' = "Map"
          /\ pc' = "shm_sleep"
          /\ UNCHANGED <<mapCount, mappedData, rowPitch, y>>
       \/ /\ stagingTexture = 0
          /\ capOutcome' = "fault"
          /\ pc' = "crashed"
          /\ UNCHANGED <<mapCount, mappedData, rowPitch, y>>
    /\ UNCHANGED <<variant, addonVars, unreported, exitStatus, captureVars, surfaceHeld, accessLost, frameBuffer,
                   bufferAllocs, frameSize, sockVars, sendVars, loopVars, shmVars, pixelData,
                   consumerVars>>

\* CaptureFrame: one row of the copy into the shared memory
ShmCopyRow ==
    /\ pc = "shm_copy"
    /\ CopyLoopBody
    /\ UNCHANGED <<variant, addonVars, unreported, pc, exitStatus, captureVars, dxgiVars, capOutcome, frameBuffer,
                   bufferAllocs, frameSize, sockVars, sendVars, loopVars, shmVars,
                   consumerVars>>

\* mutant of ShmPublishFrameNum: header->frameNum = frameNum++
ShmPublishFrameNum_PostIncrement ==
    /\ pc = "shm_copy"
    /\ ~(y < height)
    /\ frameNum' = frameNum + 1
    /\ shmHeader' = [shmHeader EXCEPT !.frameNum = frameNum]
    /\ pc' = "shm_stamp"
    /\ UNCHANGED <<variant, addonVars, unreported, exitStatus, captureVars, dxgiVars, capOutcome, frameBuffer,
                   bufferAllocs, frameSize, sockVars, sendVars, loopVars, hMapFile,
                   pSharedMem, releaseResult, targetFps, frameTime, copyVars, consumerVars>>

\* CaptureFrame: header->frameNum = ++frameNum, once the rows are copied
ShmPublishFrameNum ==
    /\ pc = "shm_copy"
    /\ ~(y < height)
    /\ frameNum' = frameNum + 1
    /\ shmHeader' = [shmHeader EXCEPT !.frameNum = frameNum + 1]
    /\ pc' = "shm_stamp"
    /\ UNCHANGED <<variant, addonVars, unreported, exitStatus, captureVars, dxgiVars, capOutcome, frameBuffer,
                   bufferAllocs, frameSize, sockVars, sendVars, loopVars, hMapFile,
                   pSharedMem, releaseResult, targetFps, frameTime, copyVars, consumerVars>>

\* CaptureFrame: header->timestamp = GetTickCount()
ShmPublishTimestamp ==
    /\ pc = "shm_stamp"
    /\ \E t \in Ticks : shmHeader' = [shmHeader EXCEPT !.timestamp = t]
    /\ pc' = "shm_ready"
    /\ UNCHANGED <<variant, addonVars, unreported, exitStatus, captureVars, dxgiVars, capOutcome, frameBuffer,
                   bufferAllocs, frameSize, sockVars, sendVars, loopVars, hMapFile,
                   pSharedMem, frameNum, releaseResult, targetFps, frameTime, copyVars,
                   consumerVars>>

\* CaptureFrame: header->ready = 1
ShmPublishReady ==
    /\ pc = "shm_ready"
    /\ shmHeader' = [shmHeader EXCEPT !.ready = 1]
    /\ pc' = "shm_unmap"
    /\ UNCHANGED <<variant, addonVars, unreported, exitStatus, captureVars, dxgiVars, capOutcome, frameBuffer,
                   bufferAllocs, frameSize, sockVars, sendVars, loopVars, hMapFile,
                   pSharedMem, frameNum, releaseResult, targetFps, frameTime, copyVars,
                   consumerVars>>

\* CaptureFrame: context->Unmap(stagingTexture, 0); return true
ShmUnmap ==
    /\ pc = "shm_unmap"
    /\ mapCount' = mapCount - 1
    /\ mappedData' = <<>>
    /\ rowPitch' = 0
    /\ y' = 0
    /\ capOutcome' = "captured"
    /\ pc' = "shm_sleep"
    /\ UNCHANGED <<variant, addonVars, unreported, exitStatus, captureVars, surfaceHeld, accessLost, frameBuffer,
                   bufferAllocs, frameSize, sockVars, sendVars, loopVars, shmVars, pixelData,
                   consumerVars>>

\* Run: elapsed < frameTime compares as unsigned; Sleep(frameTime - elapsed).
\* lastSleep is Sleep's 32-bit argument read as a signed number.
ShmSleep ==
    /\ pc = "shm_sleep"
    /\ \E elapsed \in ElapsedMs :
         lastSleep' = IF frameTime < 0 \/ elapsed < frameTime THEN frameTime - elapsed ELSE 0
    /\ releaseResult' = "none"
    /\ pc' = "shm_release"
    /\ UNCHANGED <<variant, addonVars, unreported, exitStatus, captureVars, dxgiVars, capOutcome, frameBuffer,
                   bufferAllocs, frameSize, sockVars, sendVars, framesSent, timeoutCount,
                   errorCount, lastFpsReport, hMapFile, pSharedMem, frameNum, shmHeader,
                   targetFps, frameTime, copyVars, consumerVars>>

ProducerStep ==
    \/ ShmStartup
    \/ ShmRun
    \/ ShmRelease
    \/ ShmAcquire
    \/ ShmStage
    \/ ShmCopyRow
    \/ ShmPublishFrameNum
    \/ ShmPublishTimestamp
    \/ ShmPublishReady
    \/ ShmUnmap
    \/ ShmSleep

(***************************************************************************)
(* A consumer of the shared memory: it reads frameNum, then ready, and,     *)
(* having seen ready = 1, the pixel rows one after the other.              *)
(***************************************************************************)
producerVars == <<addonVars, unreported, variant, pc, exitStatus, captureVars, dxgiVars, capOutcome, frameBuffer,
                  bufferAllocs, frameSize, sockVars, sendVars, loopVars, shmVars, copyVars>>

ConsumerReadFrameNum ==
    /\ cpc \in {"off", "idle"}
    /\ pSharedMem # 0
    /\ cFrameNum' = shmHeader.frameNum
    /\ cPixels' = <<>>
    /\ cpc' = "flag"
    /\ UNCHANGED producerVars

ConsumerReadReady ==
    /\ cpc = "flag"
    /\ cpc' = IF shmHeader.ready = 1 THEN "rows" ELSE "idle"
    /\ UNCHANGED <<cFrameNum, cPixels>>
    /\ UNCHANGED producerVars

\* the next row of shmHeader.width pixels
ConsumerReadRow ==
    /\ cpc = "rows"
    /\ LET rowBytes == shmHeader.width * 4
           total == shmHeader.width * shmHeader.height * 4
           row == SubSeq(pixelData, Len(cPixels) + 1, Len(cPixels) + rowBytes)
       IN  /\ cPixels' = cPixels \o row
           /\ cpc' = IF Len(cPixels) + rowBytes >= total THEN "done" ELSE "rows"
    /\ UNCHANGED cFrameNum
    /\ UNCHANGED producerVars

\* the frame is handed on; back to polling
ConsumerDone ==
    /\ cpc = "done"
    /\ cpc' = "idle"
    /\ cPixels' = <<>>
    /\ cFrameNum' = 0
    /\ UNCHANGED producerVars

ConsumerStep ==
    \/ ConsumerReadFrameNum
    \/ ConsumerReadReady
    \/ ConsumerReadRow
    \/ ConsumerDone

NextShm == ProducerStep \/ ConsumerStep

SpecShm == InitShm /\ [][NextShm]_vars

\* the three programs side by side
InitAll == Init \/ InitShm
NextAll == Next \/ NextShm
SpecAll == InitAll /\ [][NextAll]_vars

(***************************************************************************)
(* node-addon/capture.cpp: the host binding.  The host calls initialize,   *)
(* captureFrame, getInfo and cleanup in any order; each call runs to its   *)
(* return before the next one starts.                                      *)
(***************************************************************************)
MaxAddonInits == 3

\* the calls of ScreenCaptureAddon::Initialize, every one of them tested
AddonInitStages == <<"D3D11CreateDevice", "QueryDXGIDevice", "GetAdapter", "EnumOutputs",
                     "QueryOutput1", "DuplicateOutput", "CreateTexture2D">>

\* desktop modes of the host-binding runs
AddonModes == {<<2, 1>>, <<1920, 1080>>}

InitAddon ==
    /\ variant = "addon"
    /\ pc = "host"
    /\ exitStatus = -1
    /\ initCount = 0
    /\ device = 0 /\ duplication = 0 /\ stagingTexture = 0
    /\ width = 0 /\ height = 0
    /\ surfaceHeld = FALSE /\ accessLost = FALSE /\ mapCount = 0
    /\ capOutcome = "none"
    /\ lastSleep = 0
    /\ SocketOnlyInit
    /\ OtherInit

\* what a call returns to the host, with the call made before it
Returned(name, v) == [call |-> name, value |-> v, after |-> ret.call]

\* mutant of AddonInitialize: no early return for a session already initialized
AddonInitialize_NoGuard(failAt, mode) ==
    LET gen == initCount + 1
        dup == Passed(AddonInitStages, failAt, "DuplicateOutput")
    IN  /\ initCount' = gen
        /\ device' = IF Passed(AddonInitStages, failAt, "D3D11CreateDevice")
                     THEN gen ELSE device
        /\ duplication' = IF dup THEN gen ELSE duplication
        /\ width' = IF dup THEN mode[1] ELSE width
        /\ height' = IF dup THEN mode[2] ELSE height
        /\ stagingTexture' = IF failAt = "none" THEN gen ELSE stagingTexture
        /\ surfaceHeld' = IF dup THEN FALSE ELSE surfaceHeld
        /\ accessLost' = IF dup THEN FALSE ELSE accessLost
        /\ initialized' = (failAt = "none")
        /\ ret' = Returned("initialize", failAt = "none")

\* ScreenCaptureAddon::Initialize; failAt is the first call that fails
AddonInitialize(failAt, mode) ==
    IF initialized
    THEN /\ ret' = Returned("initialize", TRUE)
         /\ UNCHANGED <<initCount, device, duplication, width, height, stagingTexture,
                        surfaceHeld, accessLost, initialized>>
    ELSE LET gen == initCount + 1
             dup == Passed(AddonInitStages, failAt, "DuplicateOutput")
         IN  /\ initCount' = gen
             /\ device' = IF Passed(AddonInitStages, failAt, "D3D11CreateDevice")
                          THEN gen ELSE device
             /\ duplication' = IF dup THEN gen ELSE duplication
             /\ width' = IF dup THEN mode[1] ELSE width
             /\ height' = IF dup THEN mode[2] ELSE height
             /\ stagingTexture' = IF failAt = "none" THEN gen ELSE stagingTexture
             /\ surfaceHeld' = IF dup THEN FALSE ELSE surfaceHeld
             /\ accessLost' = IF dup THEN FALSE ELSE accessLost
             /\ initialized' = (failAt = "none")
             /\ ret' = Returned("initialize", failAt = "none")

\* the wrapper Initialize: new ScreenCaptureAddon() if there is none, then Initialize()
NapiInitialize ==
    /\ pc = "host"
    /\ initCount < MaxAddonInits
    /\ captureInstance' = 1
    /\ \E failAt \in Failures(AddonInitStages), mode \in AddonModes :
         AddonInitialize(failAt, mode)
    /\ UNCHANGED <<variant, pc, exitStatus, mapCount, capOutcome, socketOnlyVars, lastSleep,
                   shmVars, copyVars, consumerVars>>

\* what ScreenCaptureAddon::CaptureFrame runs into after its ReleaseFrame
AddonCaptureOutcomes ==
    IF accessLost THEN {"ACCESS_LOST"}
    ELSE {"WAIT_TIMEOUT", "ACCESS_LOST", "QueryInterface", "Map", "captured"}

\* a buffer of 8 + width*height*4 bytes: its size and its header
FrameBuffer(w, h) == [size |-> HeaderSize + w * h * 4, hdr |-> LE(w, 4) \o LE(h, 4)]
EmptyBuffer == [size |-> 0, hdr |-> <<>>]

\* mutant of AddonCaptureFrame: no test of initialized
AddonCaptureFrame_NoGuard ==
    \E r \in AddonCaptureOutcomes :
        /\ releaseResult' = IF surfaceHeld THEN "S_OK" ELSE "INVALID_CALL"
        /\ capOutcome' = r
        /\ accessLost' = (accessLost \/ r = "ACCESS_LOST")
        /\ surfaceHeld' = (r \in {"QueryInterface", "Map", "captured"})
        /\ ret' = Returned("captureFrame",
                           IF r = "captured" THEN FrameBuffer(width, height) ELSE EmptyBuffer)

\* ScreenCaptureAddon::CaptureFrame: ReleaseFrame, AcquireNextFrame, QueryInterface,
\* CopyResource, Map, header and row copy into a new buffer, Unmap
AddonCaptureFrame ==
    IF ~initialized
    THEN /\ ret' = Returned("captureFrame", EmptyBuffer)
         /\ releaseResult' = "none"
         /\ capOutcome' = "not_initialized"
         /\ UNCHANGED <<accessLost, surfaceHeld>>
    ELSE \E r \in AddonCaptureOutcomes :
            /\ releaseResult' = IF surfaceHeld THEN "S_OK" ELSE "INVALID_CALL"
            /\ capOutcome' = r
            /\ accessLost' = (accessLost \/ r = "ACCESS_LOST")
            /\ surfaceHeld' = (r \in {"QueryInterface", "Map", "captured"})
            /\ ret' = Returned("captureFrame",
                               IF r = "captured" THEN FrameBuffer(width, height)
                               ELSE EmptyBuffer)

\* the wrapper CaptureFrame: an empty buffer without an instance
NapiCaptureFrame ==
    /\ pc = "host"
    /\ IF captureInstance = 0
       THEN /\ ret' = Returned("captureFrame", EmptyBuffer)
            /\ releaseResult' = "none"
            /\ capOutcome' = "no_instance"
            /\ UNCHANGED <<accessLost, surfaceHeld>>
       ELSE AddonCaptureFrame
    /\ UNCHANGED <<variant, pc, exitStatus, initCount, device, duplication, stagingTexture,
                   width, height, mapCount, socketOnlyVars, lastSleep, hMapFile, pSharedMem,
                   frameNum, shmHeader, targetFps, frameTime, copyVars, consumerVars,
                   captureInstance, initialized>>

\* the initialized field GetInfo sets: true with an instance, false without
InfoInitialized == captureInstance # 0

\* the wrapper GetInfo
NapiGetInfo ==
    /\ pc = "host"
    /\ ret' = Returned("getInfo",
                       [width |-> IF captureInstance # 0 THEN width ELSE 0,
                        height |-> IF captureInstance # 0 THEN height ELSE 0,
                        initialized |-> InfoInitialized])
    /\ UNCHANGED <<variant, pc, exitStatus, initCount, device, duplication, stagingTexture,
                   width, height, dxgiVars, capOutcome, socketOnlyVars, lastSleep, shmVars,
                   copyVars, consumerVars, captureInstance, initialized>>

\* the wrapper Cleanup: ScreenCaptureAddon::Cleanup, delete, captureInstance = nullptr
NapiCleanup ==
    /\ pc = "host"
    /\ ret' = Returned("cleanup", "void")
    /\ IF captureInstance # 0
       THEN /\ stagingTexture' = 0
            /\ duplication' = 0
            /\ device' = 0
            /\ initialized' = FALSE
            /\ width' = 0 /\ height' = 0
            /\ surfaceHeld' = FALSE
            /\ accessLost' = FALSE
            /\ captureInstance' = 0
       ELSE UNCHANGED <<stagingTexture, duplication, device, initialized, width, height,
                        surfaceHeld, accessLost, captureInstance>>
    /\ UNCHANGED <<variant, pc, exitStatus, initCount, mapCount, capOutcome, socketOnlyVars,
                   lastSleep, shmVars, copyVars, consumerVars>>

NextAddon ==
    \/ NapiInitialize
    \/ NapiCaptureFrame
    \/ NapiGetInfo
    \/ NapiCleanup

SpecAddon == InitAddon /\ [][NextAddon]_vars

(***************************************************************************)
(* C11: a consumer of the shared memory that read frameNum and then saw    *)
(* ready = 1 never ends up with a pixel buffer that is partly from one     *)
(* frame and partly from another, for the first frame and every later one. *)
(* (The bytes of desktop image n all have the value n.)                    *)
(***************************************************************************)
C11_NoTornFrame ==
    cpc = "done" => \A i, j \in 1..Len(cPixels) : cPixels[i] = cPixels[j]

(***************************************************************************)
(* C12: every successful Map of the staging texture is matched by exactly  *)
(* one Unmap before the capture call returns, on every exit path of the    *)
(* raw, JPEG and shared-memory capture calls: the texture is mapped only   *)
(* inside a capture call, at most once, and never unmapped twice.          *)
(***************************************************************************)
C12_MapUnmapPaired ==
    /\ mapCount \in {0, 1}
    /\ mapCount = 1 => pc \in {"encode", "shm_copy", "shm_stamp", "shm_ready", "shm_unmap"}

\* a JPEG capture call has returned from its SetSize failure branch
C12_Witness == pc = "dispatch" /\ variant = "jpeg" /\ capOutcome = "SetSize" /\ mapCount = 0

(***************************************************************************)
(* C13: the row copy is right for every width, height and                  *)
(* rowPitch >= width * 4: each copied row y has destination byte           *)
(* y*width*4 + i equal to source byte y*rowPitch + i for i < width*4, all  *)
(* rows are copied when the loop ends, and nothing outside                 *)
(* [0, width*height*4) is written.                                         *)
(***************************************************************************)
C13_RowCopyCorrect ==
    /\ \A yy \in 0..(y - 1), i \in 0..(width * 4 - 1) :
          pixelData[yy * width * 4 + i + 1] = mappedData[yy * rowPitch + i + 1]
    /\ \A k \in (width * height * 4 + 1)..Len(pixelData) : pixelData[k] = NotWritten
    /\ pc = "copied" => y = height

\* a copy of several rows of several pixels from a padded source has finished
C13_Witness ==
    /\ pc = "copied"
    /\ rowPitch > width * 4
    /\ height >= 2
    /\ width >= 2

(***************************************************************************)
(* C14: when no frame is held, the release step at the start of a capture  *)
(* call does not invoke the duplication surface's ReleaseFrame and changes *)
(* no state (here for the shared-memory producer).                         *)
(***************************************************************************)
C14_ReleaseWithoutFrameIsNoOp ==
    [][ (pc = "shm_release" /\ ~surfaceHeld /\ pc' # pc) =>
              /\ releaseResult' = "none"
              /\ UNCHANGED <<surfaceHeld, accessLost, mapCount>>
      ]_vars

(***************************************************************************)
(* C15: the server has at most one client connection: a connection is      *)
(* accepted only in Listening and only when the previous client's socket   *)
(* has been closed.                                                        *)
(***************************************************************************)
C15_OneClientAtATime ==
    [][ session' # session =>
              /\ pc = "listening"
              /\ clientSocket = "invalid"
              /\ session' = session + 1
              /\ clientSocket' = "open"
      ]_vars

\* a second client is being served, after the first one's socket was closed
C15_Witness == session = 2 /\ clientSocket = "open" /\ pc = "send_data"

(***************************************************************************)
(* C16: within a client session framesSent starts at 0 on accept and       *)
(* changes only by +1, for a frame whose whole length prefix and whole     *)
(* payload were sent; never on Timeout, capture error or a failed or       *)
(* partial send.                                                           *)
(***************************************************************************)
C16_FramesSentCountsWholeFrames ==
    [][ /\ session' # session => framesSent' = 0
        /\ (framesSent' # framesSent /\ session' = session) =>
              /\ pc = "count"
              /\ framesSent' = framesSent + 1
              /\ lenDelivered = LengthPrefixSize
              /\ sent = frameSize
      ]_vars

(***************************************************************************)
(* C17: closing a client and accepting the next one leave the capture      *)
(* backend as it was: device, duplication surface, staging texture, width, *)
(* height and the held-frame flag; Initialize is not run between clients.  *)
(***************************************************************************)
C17_BackendKeptBetweenClients ==
    [][ (pc \in {"close", "listening"}) =>
              /\ UNCHANGED <<initCount, device, duplication, stagingTexture>>
              /\ UNCHANGED <<width, height, hasFrame>>
              /\ UNCHANGED <<surfaceHeld, accessLost, mapCount>>
      ]_vars

\* the second session starts with the frame the first one left held
C17_Witness ==
    /\ session = 2
    /\ pc = "capture"
    /\ framesSent = 0
    /\ hasFrame
    /\ initCount = 1

(***************************************************************************)
(* C18: with a client connected, every Timeout result is followed by       *)
(* another acquire attempt, and a frame the server starts to send is       *)
(* eventually sent in full (whole length prefix, whole payload) unless a   *)
(* send fails and the session is closed.                                   *)
(***************************************************************************)
C18_TimeoutRetriesAndFrameSent ==
    /\ (pc = "dispatch" /\ frameSize = -2) ~> (pc = "acquire")
    /\ (pc = "send_len") ~>
          (\/ pc = "close"
           \/ pc = "count" /\ lenDelivered = LengthPrefixSize /\ sent = frameSize)

(***************************************************************************)
(* C19: a compression failure at any stage costs that frame only:          *)
(* CaptureFrameJPEG returns -1, nothing of the frame is sent, the client   *)
(* stays connected, the loop calls capture again and that call starts by   *)
(* releasing the frame the failed call had acquired.                       *)
(***************************************************************************)
EncodeFailed == variant = "jpeg" /\ capOutcome \in Failures(JpegStages) \ {"none"}

C19_EncodeFailureSkipsFrameOnly ==
    [][ /\ (pc' = "dispatch" /\ EncodeFailed') =>
              /\ frameSize' = -1
              /\ hasFrame' /\ surfaceHeld'
        /\ (pc = "dispatch" /\ EncodeFailed /\ pc' # pc) =>
              /\ pc' = "capture"
              /\ clientSocket' = "open"
              /\ exitStatus' = -1
              /\ UNCHANGED <<lenDelivered, sent, sendResult, framesSent>>
        /\ (pc = "capture" /\ EncodeFailed /\ pc' # pc) =>
              /\ pc' = "acquire"
              /\ ~hasFrame' /\ ~surfaceHeld'
      ]_vars

\* the capture call after a failed WritePixels is about to start, frame still held
C19_Witness ==
    /\ pc = "capture"
    /\ capOutcome = "WritePixels"
    /\ frameSize = -1
    /\ hasFrame
    /\ clientSocket = "open"

(***************************************************************************)
(* C20: whenever a frame is encoded the quality the encoder uses           *)
(* (jpegQuality after SetQuality) lies in [0,100]: a startup argument      *)
(* outside that range is clamped or rejected.                              *)
(***************************************************************************)
C20_QualityInRange == (pc = "encode" /\ variant = "jpeg") => jpegQuality \in 0..100

(***************************************************************************)
(* C21: a failed resource-creation step of Initialize (device,             *)
(* duplication surface, staging texture, shared-memory mapping) makes the  *)
(* process exit with status 1 before it listens or captures; whatever runs *)
(* past startup has a device, a duplication surface and a staging texture  *)
(* (and, in the shared-memory variant, the mapping).                       *)
(***************************************************************************)
PastStartup == pc \notin {"start", "shm_start", "exited"}

C21_StartupFailuresFatal ==
    /\ PastStartup => /\ device # 0
                      /\ duplication # 0
                      /\ stagingTexture # 0
                      /\ variant = "shm" => (hMapFile # 0 /\ pSharedMem # 0)
    /\ pc = "exited" => /\ exitStatus = 1
                        /\ session = 0 /\ backlog = 0 /\ clientSocket = "invalid"
                        /\ frameNum = 0 /\ capOutcome = "none"

(***************************************************************************)
(* C25: the raw service's 16 MB buffer holds every frame up to 4K: for a   *)
(* screen of at most 3840x2160, 8 + width*height*4 <= BUFFER_SIZE and      *)
(* CaptureFrame never takes the buffer-too-small path.                     *)
(***************************************************************************)
C25_BufferHolds4K ==
    (variant = "raw" /\ pc = "dispatch" /\ width <= 3840 /\ height <= 2160) =>
        /\ HeaderSize + width * height * 4 <= BUFFER_SIZE_RAW
        /\ capOutcome # "BufferTooSmall"

(***************************************************************************)
(* C26: in the socket services hasFrame equals the held state of the       *)
(* duplication surface at the start and at the end of every capture call:  *)
(* true after a call that failed after its acquire succeeded, false after  *)
(* Timeout, DeviceLost or a failed acquire.                                *)
(***************************************************************************)
C26_HasFrameIsHeldState ==
    /\ pc \in {"capture", "dispatch"} => hasFrame = surfaceHeld
    /\ (pc = "dispatch" /\ capOutcome \in {"WAIT_TIMEOUT", "ACCESS_LOST", "FAIL"}) => ~hasFrame
    /\ (pc = "dispatch" /\ capOutcome \in {"QueryInterface", "Map", "BufferTooSmall"}
                                          \cup (Failures(JpegStages) \ {"none"})) => hasFrame

\* a raw capture call has returned from the buffer-too-small path, frame still held
C26_Witness ==
    /\ pc = "dispatch"
    /\ capOutcome = "BufferTooSmall"
    /\ hasFrame /\ surfaceHeld

(***************************************************************************)
(* C27: the raw CaptureFrame changes the caller's buffer only on the path  *)
(* that returns 8 + width*height*4 <= maxSize, and then exactly that many  *)
(* bytes from offset 0 (header of 8 bytes, then the pixels); on the        *)
(* buffer-too-small path it returns -1, and there and on every other       *)
(* failure path the buffer is as it was.                                   *)
(***************************************************************************)
RawCaptureCall == variant = "raw" /\ pc \in {"capture", "acquire", "stage", "encode"}

C27_RawBufferFrame ==
    [][ RawCaptureCall =>
          /\ frameBuffer' # frameBuffer =>
                /\ pc = "encode"
                /\ capOutcome' = "captured"
                /\ frameSize' = HeaderSize + width * height * 4
                /\ frameSize' <= BUFFER_SIZE_RAW
                /\ Len(frameBuffer'.hdr) = HeaderSize
          /\ (pc' = "dispatch" /\ capOutcome' # "captured") =>
                /\ frameBuffer' = frameBuffer
                /\ frameSize' < 0
          /\ (pc = "encode" /\ pc' # pc /\ HeaderSize + width * height * 4 > BUFFER_SIZE_RAW) =>
                /\ frameSize' = -1
                /\ frameBuffer' = frameBuffer
      ]_vars

\* the call for a 3840x2160 screen has returned -1, the buffer still as allocated
C27_Witness ==
    /\ variant = "raw"
    /\ pc = "dispatch"
    /\ capOutcome = "BufferTooSmall"
    /\ frameSize = -1
    /\ frameBuffer.body = "uninit"

(***************************************************************************)
(* C28: in the shared-memory producer the header's frameNum is the number  *)
(* of completed captures: a successful CaptureFrame raises it by 1, a      *)
(* failed one (timeout, acquire failure, map failure) leaves frameNum,     *)
(* timestamp, ready and the pixel buffer as they were, and no pixel write  *)
(* lands outside the width*height*4 bytes behind the header.               *)
(***************************************************************************)
ShmCallReturned == pc = "shm_sleep"

C28_FrameNumCountsCaptures ==
    /\ [][ /\ shmHeader'.frameNum # shmHeader.frameNum =>
                \/ pc = "shm_start"
                \/ /\ pc = "shm_copy" /\ y = height /\ mapCount = 1
                   /\ shmHeader'.frameNum = shmHeader.frameNum + 1
           /\ (shmHeader'.timestamp # shmHeader.timestamp \/ shmHeader'.ready # shmHeader.ready)
                 => pc \in {"shm_start", "shm_stamp", "shm_ready"}
           /\ pixelData' # pixelData => pc \in {"shm_start", "shm_copy"}
           /\ (ShmCallReturned' /\ ~ShmCallReturned) =>
                 /\ shmHeader'.frameNum = frameNum'
                 /\ capOutcome' = "captured" => (pc = "shm_unmap" /\ shmHeader'.ready = 1)
                 /\ capOutcome' # "captured" => pc \in {"shm_acquire", "shm_stage"}
         ]_vars
    /\ [](\A k \in 1..Len(pixelData) :
              k > shmHeader.width * shmHeader.height * 4 => pixelData[k] = NotWritten)
    /\ [](pc \in {"shm_stamp", "shm_ready", "shm_unmap"} => shmHeader.frameNum = frameNum)

\* a capture failed at Map after one frame was published: the header still says 1
C28_Witness ==
    /\ pc = "shm_sleep"
    /\ capOutcome = "Map"
    /\ shmHeader.frameNum = 1
    /\ shmHeader.ready = 1
    /\ frameNum = 1

(***************************************************************************)
(* C29: for every frame rate the startup argument can give (0 and          *)
(* negative values included) Run computes 1000 / targetFps without a       *)
(* fault and enters the capture loop, and the loop goes on after a failed  *)
(* or timed-out CaptureFrame.                                              *)
(***************************************************************************)
C29_RunAlwaysLoops ==
    [][ /\ (pc = "shm_run" /\ pc' # pc) =>
              /\ pc' = "shm_release"
              /\ targetFps # 0
              /\ frameTime' = CDiv(1000, targetFps)
        /\ (pc = "shm_sleep" /\ pc' # pc) => pc' = "shm_release"
        /\ (pc = "shm_acquire" /\ pc' # pc) => pc' \in {"shm_stage", "shm_sleep"}
      ]_vars

(***************************************************************************)
(* C22: in the host binding captureFrame returns an empty buffer whenever  *)
(* the session is not initialized (no initialize yet, initialize returned  *)
(* false, cleanup called) and whenever acquisition or mapping fails, and   *)
(* in the not-initialized cases it leaves the duplication surface alone.   *)
(***************************************************************************)
C22_EmptyWhenNotInitialized ==
    [][ ret'.call = "captureFrame" =>
          /\ (captureInstance = 0 \/ ~initialized) =>
                /\ ret'.value.size = 0
                /\ releaseResult' = "none"
                /\ UNCHANGED <<surfaceHeld, accessLost, mapCount, duplication>>
          /\ capOutcome' \in {"WAIT_TIMEOUT", "ACCESS_LOST", "QueryInterface", "Map"} =>
                ret'.value.size = 0
          /\ ret'.value.size # 0 =>
                /\ initialized /\ duplication # 0 /\ stagingTexture # 0
                /\ capOutcome' = "captured"
                /\ ret'.value = FrameBuffer(width, height)
      ]_vars

\* captureFrame was called after an initialize that failed behind DuplicateOutput
C22_Witness ==
    /\ ret.call = "captureFrame"
    /\ ret.after = "initialize"
    /\ captureInstance # 0
    /\ ~initialized
    /\ duplication # 0
    /\ ret.value.size = 0

(***************************************************************************)
(* C23: the initialized field getInfo returns is true exactly when the     *)
(* session is initialized (the last initialize returned true and no        *)
(* cleanup since); after an initialize that returned false it is false.    *)
(***************************************************************************)
C23_InfoTellsInitialized ==
    ret.call = "getInfo" => (ret.value.initialized <=> (captureInstance # 0 /\ initialized))

(***************************************************************************)
(* C24: in the JPEG service lastFpsReport <= framesSent, a report sets     *)
(* lastFpsReport to framesSent, and a report is emitted for each elapsed   *)
(* second of a session: an iteration of the streaming loop that ends when  *)
(* a second or more has gone by since the session's start or its last      *)
(* report emits one.                                                       *)
(***************************************************************************)
C24_ReportEachSecond ==
    /\ [](lastFpsReport <= framesSent)
    /\ [][ (variant = "jpeg" /\ pc \in {"dispatch", "count"} /\ pc' = "capture") =>
              /\ lastFpsReport' # lastFpsReport => lastFpsReport' = framesSent'
              /\ unreported * MsPerSecond >= ReportPeriodMs =>
                    (unreported' = 0 /\ lastFpsReport' = framesSent')
         ]_vars

(***************************************************************************)
(* C30: in the host binding initialize on an initialized session returns   *)
(* true and re-creates nothing; initialize after cleanup builds a fresh    *)
(* session; cleanup with no session changes nothing.                       *)
(***************************************************************************)
C30_InitializeIdempotent ==
    [][ /\ (ret'.call = "initialize" /\ initialized) =>
              /\ ret'.value = TRUE
              /\ UNCHANGED <<initCount, device, duplication, stagingTexture, width, height,
                             initialized, captureInstance>>
        /\ (ret'.call = "initialize" /\ captureInstance = 0 /\ ret'.value = TRUE) =>
              /\ initialized' /\ captureInstance' # 0
              /\ device' > initCount /\ duplication' = device' /\ stagingTexture' = device'
              /\ ~surfaceHeld' /\ ~accessLost'
        /\ (ret'.call = "cleanup" /\ captureInstance = 0) =>
              UNCHANGED <<initCount, device, duplication, stagingTexture, width, height,
                          initialized, captureInstance, dxgiVars>>
        /\ ret'.call = "cleanup" =>
              /\ ~initialized' /\ captureInstance' = 0
              /\ device' = 0 /\ duplication' = 0 /\ stagingTexture' = 0
      ]_vars

\* initialize was called twice in a row and only the first call created anything
C30_Witness ==
    /\ ret.call = "initialize"
    /\ ret.after = "initialize"
    /\ ret.value = TRUE
    /\ initialized
    /\ initCount = 1
    /\ device = 1

====
